---- MODULE Spec2Model ----
(***************************************************************************)
(* Watch registry of src/global/commands/g.watchuser.ts.                   *)
(*                                                                         *)
(* The program runs on one JavaScript event loop.  A function runs without *)
(* interruption up to its next `await`; there it suspends and any other    *)
(* unit of work may run.  Every action below is one such uninterrupted     *)
(* stretch of code, or the execution of one query by the database.         *)
(*                                                                         *)
(* A unit of work that is suspended is a record of `tasks`: an             *)
(* executeWatch awaiting dbAddOrUpdateWatchedUser, a deleteWatchRequest    *)
(* awaiting dbDeleteWatchRequestOrWatchedUser, or one callback of the      *)
(* forEach of nightsWatch awaiting its fetches.                            *)
(***************************************************************************)
EXTENDS Integers, Sequences, FiniteSets, Bags, TLC

Targets == {"u1"}
Callers == {"c1", "c2", "c3"}
NULL    == "null"

\* The notificationMethod and the alertChannel a command gives executeWatch: a
\* direct message, a message in a channel, and "channel" without a channel.
Notifications == {<<"dm", NULL>>, <<"channel", "ch1">>, <<"channel", NULL>>}

\* Bounds of the model.
MaxTasks == 2    \* units of work suspended at the same time
MaxAdds  == 2    \* executeWatch calls that add a request

VARIABLES
  watchedUsers,   \* line 30: the object whose keys are the watched targets
  watched_users,  \* table db.watched_users: the targets that have an aggregate row
  watch_request,  \* table db.watch_request: the request rows
  nextId,         \* autoincrement of watch_request.id
  cascade,        \* the foreign key of watch_request deletes its rows with the aggregate
  tasks,          \* the suspended units of work, a bag of records
  ev,             \* history: the step that was taken last, and what it returned
  rid,            \* history: target -> caller -> number of its latest WatchRequest
  nAdds,          \* history: the executeWatch calls that added a request
  sends           \* history: WatchRequest number -> notification sends issued for it

vars == <<watchedUsers, watched_users, watch_request, nextId, cascade, tasks, ev,
          rid, nAdds, sends>>

----------------------------------------------------------------------------
\* Pure parts of the code.

\* lines 183-187 and 194-198: the object literal of a new WatchRequest
NewWatchRequest(notificationMethod, alertChannel, callerId) ==
  [notificationMethod |-> notificationMethod,
   channelId          |-> alertChannel,
   callerId           |-> callerId]

\* lines 175-180: the loop that looks for a request of the same caller
HasRequest(watchRequests, callerId) ==
  \E i \in 1..Len(watchRequests) : watchRequests[i].callerId = callerId

\* line 117: findIndex, 0 standing for -1 (indices start at 1 here)
findIndex(watchRequests, callerId) ==
  IF HasRequest(watchRequests, callerId)
  THEN CHOOSE i \in 1..Len(watchRequests) :
         /\ watchRequests[i].callerId = callerId
         /\ \A j \in 1..(i - 1) : watchRequests[j].callerId # callerId
  ELSE 0

\* splice(indexToDelete) without its second argument: everything from the index
\* on is taken out
splice_toEnd(watchRequests, indexToDelete) ==
  LET i == IF indexToDelete = 0 THEN Len(watchRequests) ELSE indexToDelete
  IN  SubSeq(watchRequests, 1, i - 1)

\* slice in the place of splice: the array is left as it is
splice_slice(watchRequests, indexToDelete) == watchRequests

\* line 124: splice(indexToDelete, 1); splice(-1, 1) takes the last element
splice(watchRequests, indexToDelete) ==
  LET i == IF indexToDelete = 0 THEN Len(watchRequests) ELSE indexToDelete
  IN  [j \in 1..(Len(watchRequests) - 1) |->
         IF j < i THEN watchRequests[j] ELSE watchRequests[j + 1]]

\* lines 66-70 and 52-54: a WatchRequest as a row of watch_request
Row(id, targetUserId, request) ==
  [id                  |-> id,
   watched_user_id     |-> targetUserId,
   notification_method |-> request.notificationMethod,
   channel_id          |-> request.channelId,
   caller_id           |-> request.callerId]

\* the rows made of a sequence of requests, numbered from id in order
RECURSIVE Rows(_, _, _)
Rows(id, targetUserId, requests) ==
  IF requests = <<>> THEN {}
  ELSE {Row(id, targetUserId, Head(requests))}
         \cup Rows(id + 1, targetUserId, Tail(requests))

\* line 81: include { watch_requests: true }
RowsOf(targetUserId) == {r \in watch_request : r.watched_user_id = targetUserId}

----------------------------------------------------------------------------
\* Suspended units of work.

\* a unit of work suspended at pc
Task(kind, origin, pc, target, caller) ==
  [kind |-> kind, origin |-> origin, pc |-> pc, target |-> target, caller |-> caller,
   request |-> NewWatchRequest(NULL, NULL, NULL), rid |-> 0,
   live |-> FALSE, found |-> FALSE, args |-> <<>>, delId |-> 0, last |-> FALSE]

Suspended == BagToSet(tasks)

\* tasks with task replaced by what it has become
Becomes(task, new) == (tasks (-) SetToBag({task})) (+) SetToBag({new})

\* tasks without task, whose promise is settled
Ends(task) == tasks (-) SetToBag({task})

\* what a step did: the operation, its arguments and what it gave its caller
Event(op, target, caller, result) ==
  [op |-> op, target |-> target, caller |-> caller, result |-> result]

\* The database steps that are not the last one of their unit of work.
DbStep == Event("db", NULL, NULL, NULL)

\* lines 191, 206 and 133: the caller of executeWatch or deleteWatchRequest gets
\* true, or the error of the store.  A callback of nightsWatch that gets an error
\* ends with an unhandled rejection.
Return(task, result) ==
  Event(IF task.origin = "command" THEN "return " \o task.kind ELSE "return to callback",
        task.target, task.caller, result)

----------------------------------------------------------------------------
Init ==
  /\ watchedUsers = [t \in {} |-> NULL]
  /\ watched_users = {}
  /\ watch_request = {}
  /\ nextId = 1
  /\ cascade \in BOOLEAN
  /\ tasks = EmptyBag
  /\ ev = Event("init", NULL, NULL, NULL)
  /\ rid = [t \in Targets |-> [c \in Callers |-> 0]]
  /\ nAdds = 0
  /\ sends = <<>>

----------------------------------------------------------------------------
\* executeWatch, lines 162-207, up to its await.

\* The duplicate check as a return inside the callback of a forEach, which does
\* not leave executeWatch.
IsDuplicate_forEach(target, callerId) == FALSE

\* lines 170-180: someone watches the target and the caller already has a request
IsDuplicate(target, callerId) ==
  /\ target \in DOMAIN watchedUsers
  /\ HasRequest(watchedUsers[target].watchRequests, callerId)

\* An add that writes an array of its own in the place of the one it read: the
\* requests pushed before it are lost.
Added_overwrite(target, request) ==
  [targetUserId |-> target, watchRequests |-> <<request>>]

\* lines 183-188 and 194-203: the entry of the target after the add
Added(target, request) ==
  IF target \in DOMAIN watchedUsers
  THEN [watchedUsers[target] EXCEPT !.watchRequests = Append(@, request)]
  ELSE [targetUserId |-> target, watchRequests |-> <<request>>]

\* the index with the entry of target set to watch (a new key when it has none)
Put(target, watch) ==
  [t \in DOMAIN watchedUsers \cup {target} |->
     IF t = target THEN watch ELSE watchedUsers[t]]

executeWatch(target, notificationMethod, callerId, alertChannel) ==
  IF IsDuplicate(target, callerId)
  THEN \* line 178
       /\ ev' = Event("executeWatch", target, callerId, "false")
       /\ UNCHANGED <<watchedUsers, watched_users, watch_request, nextId, cascade,
                      tasks, rid, nAdds, sends>>
  ELSE \* lines 183-189 and 194-204, suspended in dbAddOrUpdateWatchedUser at line 34
       /\ nAdds < MaxAdds
       /\ BagCardinality(tasks) < MaxTasks
       /\ watchedUsers' =
            Put(target, Added(target,
                  NewWatchRequest(notificationMethod, alertChannel, callerId)))
       /\ tasks' = tasks (+) SetToBag({
            [Task("executeWatch", "command", "findUnique", target, callerId)
               EXCEPT !.live = TRUE]})
       /\ nAdds' = nAdds + 1
       /\ rid' = [rid EXCEPT ![target][callerId] = Len(sends) + 1]
       /\ sends' = Append(sends, 0)
       /\ ev' = Event("executeWatch", target, callerId, "pending")
       /\ UNCHANGED <<watched_users, watch_request, nextId, cascade>>

----------------------------------------------------------------------------
\* dbAddOrUpdateWatchedUser, lines 32-76.

\* lines 34-38: the database runs findUnique
AddFindUnique(task) ==
  /\ task.kind = "executeWatch" /\ task.pc = "findUnique"
  /\ tasks' = Becomes(task, [task EXCEPT !.pc = "found",
                                         !.found = (task.target \in watched_users)])
  /\ ev' = DbStep
  /\ UNCHANGED <<watchedUsers, watched_users, watch_request, nextId, cascade,
                 rid, nAdds, sends>>

\* The array the task was given at lines 189 and 204 is the array of the index
\* entry: it is read when the function resumes, not when it was called.  Once the
\* entry was deleted (line 128) the task is left with the emptied array.
ArrayOf(task) ==
  IF task.live THEN watchedUsers[task.target].watchRequests ELSE <<>>

\* line 42: watchRequests[watchRequests.length - 1]
LatestRequest(watchRequests) == watchRequests[Len(watchRequests)]

\* lines 40-75: the function resumes with the result of findUnique and sends
\* its write to the database
AddResume(task) ==
  /\ task.kind = "executeWatch" /\ task.pc = "found"
  /\ IF task.found
     THEN IF ArrayOf(task) = <<>>
          THEN \* line 52: latestRequest is undefined, a TypeError
               /\ tasks' = Ends(task)
               /\ ev' = Return(task, "error")
          ELSE /\ tasks' = Becomes(task,
                     [task EXCEPT !.pc = "update",
                                  !.args = <<LatestRequest(ArrayOf(task))>>])
               /\ ev' = Event("resume", NULL, NULL, NULL)
     ELSE /\ tasks' = Becomes(task, [task EXCEPT !.pc = "create", !.args = ArrayOf(task)])
          /\ ev' = Event("resume", NULL, NULL, NULL)
  /\ UNCHANGED <<watchedUsers, watched_users, watch_request, nextId, cascade,
                 rid, nAdds, sends>>

\* lines 45-58: the database runs update; it fails when the aggregate is gone
DbUpdate(task) ==
  /\ task.kind = "executeWatch" /\ task.pc = "update"
  /\ IF task.target \in watched_users
     THEN /\ watch_request' = watch_request \cup Rows(nextId, task.target, task.args)
          /\ nextId' = nextId + Len(task.args)
          /\ ev' = Return(task, "true")
     ELSE /\ ev' = Return(task, "error")
          /\ UNCHANGED <<watch_request, nextId>>
  /\ tasks' = Ends(task)
  /\ UNCHANGED <<watchedUsers, watched_users, cascade, rid, nAdds, sends>>

\* lines 61-75: the database runs create; target_user_id is unique
DbCreate(task) ==
  /\ task.kind = "executeWatch" /\ task.pc = "create"
  /\ IF task.target \notin watched_users
     THEN /\ watched_users' = watched_users \cup {task.target}
          /\ watch_request' = watch_request \cup Rows(nextId, task.target, task.args)
          /\ nextId' = nextId + Len(task.args)
          /\ ev' = Return(task, "true")
     ELSE /\ ev' = Return(task, "error")
          /\ UNCHANGED <<watched_users, watch_request, nextId>>
  /\ tasks' = Ends(task)
  /\ UNCHANGED <<watchedUsers, cascade, rid, nAdds, sends>>

----------------------------------------------------------------------------
\* deleteWatchRequest, lines 107-134, up to its await.

\* deleteWatchRequest without the test of line 119.
IsWatched_noIndexTest(target, callerId) == target \in DOMAIN watchedUsers

\* lines 108-121: the target is watched and the caller has a request
IsWatched(target, callerId) ==
  /\ target \in DOMAIN watchedUsers
  /\ findIndex(watchedUsers[target].watchRequests, callerId) # 0

\* deleteWatchRequest without the delete of lines 127-129.
DeleteIfEmpty_keep(target, watchRequests) ==
  [watchedUsers EXCEPT ![target].watchRequests = watchRequests]

\* lines 126-129: delete the entry of the target when no request is left
DeleteIfEmpty(target, watchRequests) ==
  IF Len(watchRequests) = 0
  THEN [t \in DOMAIN watchedUsers \ {target} |-> watchedUsers[t]]
  ELSE [watchedUsers EXCEPT ![target].watchRequests = watchRequests]

\* lines 114-129: the index without the request of the caller
Removed(target, callerId) ==
  LET watchRequests == watchedUsers[target].watchRequests
  IN  DeleteIfEmpty(target, splice(watchRequests, findIndex(watchRequests, callerId)))

\* The executeWatch calls suspended on target hold the array of its entry; when
\* the entry is deleted they are left with that array, now empty.
Detached(target, task) ==
  IF task.kind = "executeWatch" /\ task.target = target
  THEN [task EXCEPT !.live = FALSE] ELSE task

\* lines 123-131 as run by a unit of work, which is then suspended in
\* dbDeleteWatchRequestOrWatchedUser at line 79; others is the rest of the tasks
Remove(others, origin, target, callerId) ==
  /\ watchedUsers' = Removed(target, callerId)
  /\ tasks' =
       LET deleted(task) == Detached(target, task)
           rest == IF target \in DOMAIN Removed(target, callerId)
                   THEN others ELSE BagOfAll(deleted, others)
       IN  rest (+) SetToBag({Task("deleteWatchRequest", origin, "findUnique",
                                   target, callerId)})

\* deleteWatchRequest called by the command that cancels a watch
deleteWatchRequest(target, callerId) ==
  IF IsWatched(target, callerId)
  THEN /\ BagCardinality(tasks) < MaxTasks
       /\ Remove(tasks, "command", target, callerId)
       /\ ev' = Event("deleteWatchRequest", target, callerId, "pending")
       /\ UNCHANGED <<watched_users, watch_request, nextId, cascade, rid, nAdds, sends>>
  ELSE \* lines 111 and 120
       /\ ev' = Event("deleteWatchRequest", target, callerId, "false")
       /\ UNCHANGED <<watchedUsers, watched_users, watch_request, nextId, cascade,
                      tasks, rid, nAdds, sends>>

----------------------------------------------------------------------------
\* dbDeleteWatchRequestOrWatchedUser, lines 78-105.

\* line 100: watchRequests.length <= 1, on the rows read at line 79
IsLast(watchRequests) == Cardinality(watchRequests) <= 1

\* lines 79-100: the database runs findUnique with the rows of the aggregate; the
\* function resumes and picks the row it deletes.  find (line 92) takes the first
\* row of the caller in the order the database gave, which is any of them.
DelFindUnique(task) ==
  /\ task.kind = "deleteWatchRequest" /\ task.pc = "findUnique"
  /\ LET watchRequests == RowsOf(task.target)
         ofCaller == {r \in watchRequests : r.caller_id = task.caller}
     IN  IF task.target \notin watched_users
         THEN /\ tasks' = Ends(task)                           \* lines 84-87
              /\ ev' = Return(task, "true")
         ELSE IF ofCaller # {}
         THEN /\ \E requestToDelete \in ofCaller :             \* lines 93-96
                   tasks' = Becomes(task,
                     [task EXCEPT !.pc = "deleteRequest", !.delId = requestToDelete.id,
                                  !.last = IsLast(watchRequests)])
              /\ ev' = DbStep
         ELSE IF IsLast(watchRequests)                         \* lines 98-100
         THEN /\ tasks' = Becomes(task, [task EXCEPT !.pc = "deleteUser"])
              /\ ev' = DbStep
         ELSE /\ tasks' = Ends(task)
              /\ ev' = Return(task, "true")
  /\ UNCHANGED <<watchedUsers, watched_users, watch_request, nextId, cascade,
                 rid, nAdds, sends>>

\* lines 94-96: the database runs watch_request.delete; it fails when the row is
\* gone.  Then line 100.
DbDeleteRequest(task) ==
  /\ task.kind = "deleteWatchRequest" /\ task.pc = "deleteRequest"
  /\ IF \E r \in watch_request : r.id = task.delId
     THEN /\ watch_request' = {r \in watch_request : r.id # task.delId}
          /\ IF task.last
             THEN /\ tasks' = Becomes(task, [task EXCEPT !.pc = "deleteUser"])
                  /\ ev' = DbStep
             ELSE /\ tasks' = Ends(task)
                  /\ ev' = Return(task, "true")
     ELSE /\ tasks' = Ends(task)
          /\ ev' = Return(task, "error")
          /\ UNCHANGED watch_request
  /\ UNCHANGED <<watchedUsers, watched_users, nextId, cascade, rid, nAdds, sends>>

\* lines 101-103: the database runs watched_users.delete; it fails when the
\* aggregate is gone, and when it still has rows that the foreign key protects
DbDeleteUser(task) ==
  /\ task.kind = "deleteWatchRequest" /\ task.pc = "deleteUser"
  /\ IF /\ task.target \in watched_users
        /\ (RowsOf(task.target) = {} \/ cascade)
     THEN /\ watched_users' = watched_users \ {task.target}
          /\ watch_request' = watch_request \ RowsOf(task.target)
          /\ ev' = Return(task, "true")
     ELSE /\ ev' = Return(task, "error")
          /\ UNCHANGED <<watched_users, watch_request>>
  /\ tasks' = Ends(task)
  /\ UNCHANGED <<watchedUsers, nextId, cascade, rid, nAdds, sends>>

----------------------------------------------------------------------------
\* nightsWatch, lines 136-160.

\* lines 142-143: the callback of one request, suspended at its first await
CallbackOf(author, watchRequestObj) ==
  [Task("nightsWatch", "nightsWatch", "fetch", author, watchRequestObj.callerId)
     EXCEPT !.request = watchRequestObj, !.rid = rid[author][watchRequestObj.callerId]]

\* forEach when the callback removes its request before the next element is
\* visited: the elements move down by one and every second one is passed over.
RECURSIVE forEach_spliced(_, _)
forEach_spliced(author, watchRequests) ==
  IF watchRequests = <<>> THEN EmptyBag
  ELSE SetToBag({CallbackOf(author, Head(watchRequests))})
         (+) (IF Len(watchRequests) = 1 THEN EmptyBag
              ELSE forEach_spliced(author, Tail(Tail(watchRequests))))

\* line 142: forEach starts one callback per request of the array; each runs up
\* to its first await before the next one starts
RECURSIVE forEach(_, _)
forEach(author, watchRequests) ==
  IF watchRequests = <<>> THEN EmptyBag
  ELSE SetToBag({CallbackOf(author, Head(watchRequests))})
         (+) forEach(author, Tail(watchRequests))

nightsWatch(author, inGuild) ==
  /\ IF author \in DOMAIN watchedUsers /\ inGuild
     THEN LET watchRequests == watchedUsers[author].watchRequests
          IN  /\ BagCardinality(tasks) + Len(watchRequests) <= MaxTasks
              /\ tasks' = tasks (+) forEach(author, watchRequests)
     ELSE UNCHANGED tasks                                        \* line 139
  /\ ev' = Event("nightsWatch", author, NULL, NULL)
  /\ UNCHANGED <<watchedUsers, watched_users, watch_request, nextId, cascade,
                 rid, nAdds, sends>>

\* lines 144 and 150-152: the request has a branch that sends
CanNotify(request) ==
  \/ request.notificationMethod = "dm"
  \/ request.notificationMethod = "channel" /\ request.channelId # NULL

\* A callback that drops the request it could not resolve.
Callback_dropUnresolved(task, resolved) ==
  /\ task.kind = "nightsWatch" /\ task.pc = "fetch"
  /\ IF IsWatched(task.target, task.caller)
     THEN Remove(Ends(task), "nightsWatch", task.target, task.caller)
     ELSE tasks' = Ends(task) /\ UNCHANGED watchedUsers
  /\ IF resolved /\ CanNotify(task.request)
     THEN /\ sends' = [sends EXCEPT ![task.rid] = @ + 1]
          /\ ev' = Event("send", task.target, task.caller,
                         IF IsWatched(task.target, task.caller) THEN "pending" ELSE "false")
     ELSE /\ ev' = Event("skip", task.target, task.caller, NULL)
          /\ UNCHANGED sends
  /\ UNCHANGED <<watched_users, watch_request, nextId, cascade, rid, nAdds>>

\* lines 143-158: the callback resumes after its fetches.  When they resolved
\* (the user, the guild, the channel) it sends and calls deleteWatchRequest in
\* the same stretch; when one of them failed, or the request has no branch that
\* sends, the callback ends with the request left where it is.
Callback(task, resolved) ==
  /\ task.kind = "nightsWatch" /\ task.pc = "fetch"
  /\ IF resolved /\ CanNotify(task.request)
     THEN /\ sends' = [sends EXCEPT ![task.rid] = @ + 1]       \* lines 147 and 155
          /\ IF IsWatched(task.target, task.caller)             \* lines 148 and 156
             THEN /\ Remove(Ends(task), "nightsWatch", task.target, task.caller)
                  /\ ev' = Event("send", task.target, task.caller, "pending")
             ELSE /\ tasks' = Ends(task)
                  /\ ev' = Event("send", task.target, task.caller, "false")
                  /\ UNCHANGED watchedUsers
     ELSE /\ tasks' = Ends(task)
          /\ ev' = Event("skip", task.target, task.caller, NULL)
          /\ UNCHANGED <<watchedUsers, sends>>
  /\ UNCHANGED <<watched_users, watch_request, nextId, cascade, rid, nAdds>>

----------------------------------------------------------------------------
\* The commands and messages about these targets, by these callers, with these
\* notifications.
Commands(targets, callers, notifications) ==
  \/ \E target \in targets, callerId \in callers, n \in notifications :
       executeWatch(target, n[1], callerId, n[2])
  \/ \E target \in targets, callerId \in callers : deleteWatchRequest(target, callerId)
  \/ \E author \in targets, inGuild \in BOOLEAN : nightsWatch(author, inGuild)

\* A suspended executeWatch goes on.
AddWork ==
  \E task \in Suspended :
    \/ AddFindUnique(task)
    \/ AddResume(task)
    \/ DbUpdate(task)
    \/ DbCreate(task)

\* A suspended deleteWatchRequest goes on.
DeleteWork ==
  \E task \in Suspended :
    \/ DelFindUnique(task)
    \/ DbDeleteRequest(task)
    \/ DbDeleteUser(task)

\* The commands of two callers.
Watchers == {"c1", "c2"}

\* Any command at any time, whatever is suspended.
Next ==
  \/ Commands(Targets, Watchers, Notifications)
  \/ AddWork
  \/ DeleteWork
  \/ \E task \in Suspended, resolved \in BOOLEAN : Callback(task, resolved)

Spec == Init /\ [][Next]_vars

\* One command at a time: a command or a message comes when nothing is
\* suspended.  The callbacks of one nightsWatch still run in any order.
NextSeq ==
  \/ tasks = EmptyBag /\ Commands(Targets, Watchers, Notifications)
  \/ AddWork
  \/ DeleteWork
  \/ \E task \in Suspended, resolved \in BOOLEAN : Callback(task, resolved)

SpecSeq == Init /\ [][NextSeq]_vars

\* The query a suspended unit of work has sent to the database and awaits.
AwaitsStore(task) ==
  \/ task.kind = "executeWatch" /\ task.pc \in {"findUnique", "update", "create"}
  \/ task.kind = "deleteWatchRequest"
       /\ task.pc \in {"findUnique", "deleteRequest", "deleteUser"}

\* A failure of the store that is caught, the index put back as it was before
\* the call.
StoreFails_rollback(task) ==
  /\ AwaitsStore(task)
  /\ tasks' = Ends(task)
  /\ ev' = Return(task, "error")
  /\ watchedUsers' =
       IF task.kind = "executeWatch" /\ IsWatched(task.target, task.caller)
       THEN Removed(task.target, task.caller)
       ELSE watchedUsers
  /\ UNCHANGED <<watched_users, watch_request, nextId, cascade, rid, nAdds, sends>>

\* lines 34, 45, 61, 79, 94 and 101: the query is rejected (the database cannot
\* be reached, the query times out).  No try encloses an await of lines 131, 189
\* and 204, so the rejection is the result of executeWatch or deleteWatchRequest,
\* and nothing that was done before the await is undone.
StoreFails(task) ==
  /\ AwaitsStore(task)
  /\ tasks' = Ends(task)
  /\ ev' = Return(task, "error")
  /\ UNCHANGED <<watchedUsers, watched_users, watch_request, nextId, cascade,
                 rid, nAdds, sends>>

\* One command at a time, with a store whose queries can fail.
NextSeqFail ==
  \/ NextSeq
  \/ \E task \in Suspended : StoreFails(task)

SpecSeqFail == Init /\ [][NextSeqFail]_vars

\* The registry after executeWatch has returned true for each of these requests
\* of target, in order, with nothing suspended: index and store hold the same.
Registered(target, requests) ==
  /\ watchedUsers = IF requests = <<>> THEN [t \in {} |-> NULL]
                    ELSE [t \in {target} |->
                            [targetUserId |-> target, watchRequests |-> requests]]
  /\ watched_users = IF requests = <<>> THEN {} ELSE {target}
  /\ watch_request = Rows(1, target, requests)
  /\ nextId = Len(requests) + 1
  /\ cascade \in BOOLEAN
  /\ tasks = EmptyBag
  /\ ev = Event("init", NULL, NULL, NULL)
  /\ rid = [t \in Targets |-> [c \in Callers |->
              IF t = target /\ HasRequest(requests, c)
              THEN findIndex(requests, c) ELSE 0]]
  /\ nAdds = 0
  /\ sends = [n \in 1..Len(requests) |-> 0]

\* The notifications whose request has a branch of nightsWatch that sends.
Sendable == {<<"dm", NULL>>, <<"channel", "ch1">>}

\* Scenario 3: c1 and c2 watch u1, then one message of u1 in a guild, and the
\* fetches of both callbacks resolve.
InitDispatch ==
  \E n1, n2 \in Sendable :
    Registered("u1", <<NewWatchRequest(n1[1], n1[2], "c1"),
                       NewWatchRequest(n2[1], n2[2], "c2")>>)

NextDispatch ==
  \/ ev.op = "init" /\ nightsWatch("u1", TRUE)
  \/ DeleteWork
  \/ \E task \in Suspended : Callback(task, TRUE)

SpecDispatch == InitDispatch /\ [][NextDispatch]_vars

\* lines 147-148 and 155-156 when the message cannot be delivered: send returns
\* a promise that is not awaited, so its rejection is seen by nobody and
\* deleteWatchRequest is called in the same stretch whatever becomes of the send.
\* No notification is counted in sends.
SendFails(task) ==
  /\ task.kind = "nightsWatch" /\ task.pc = "fetch"
  /\ CanNotify(task.request)
  /\ IF IsWatched(task.target, task.caller)
     THEN /\ Remove(Ends(task), "nightsWatch", task.target, task.caller)
          /\ ev' = Event("send failed", task.target, task.caller, "pending")
     ELSE /\ tasks' = Ends(task)
          /\ ev' = Event("send failed", task.target, task.caller, "false")
          /\ UNCHANGED watchedUsers
  /\ UNCHANGED <<watched_users, watch_request, nextId, cascade, rid, nAdds, sends>>

\* Scenario 3 with recipients that may not take the message.
NextDispatchFails ==
  \/ NextDispatch
  \/ \E task \in Suspended : SendFails(task)

SpecDispatchFails == InitDispatch /\ [][NextDispatchFails]_vars

\* Commands that add only: the registry is empty or c1 watches u1, and the three
\* callers call executeWatch at any time.
InitAdds ==
  \/ Registered("u1", <<>>)
  \/ \E n \in Notifications : Registered("u1", <<NewWatchRequest(n[1], n[2], "c1")>>)

NextAdds ==
  \/ \E target \in Targets, callerId \in Callers, n \in Notifications :
       executeWatch(target, n[1], callerId, n[2])
  \/ AddWork

SpecAdds == InitAdds /\ [][NextAdds]_vars

\* Cancellation against dispatch: c1 watches u1, alone or with c2; messages of
\* u1 arrive, their fetches resolve, and the callers cancel at any time.
InitRace ==
  \E n1, n2 \in Sendable :
    \/ Registered("u1", <<NewWatchRequest(n1[1], n1[2], "c1")>>)
    \/ Registered("u1", <<NewWatchRequest(n1[1], n1[2], "c1"),
                          NewWatchRequest(n2[1], n2[2], "c2")>>)

NextRace ==
  \/ nightsWatch("u1", TRUE)
  \/ \E callerId \in Watchers : deleteWatchRequest("u1", callerId)
  \/ DeleteWork
  \/ \E task \in Suspended : Callback(task, TRUE)

SpecRace == InitRace /\ [][NextRace]_vars

\* Two targets: c1, c2 and c3 watch u1 and c1 watches u2 (index and store
\* agree), and the callers cancel at any time.
TargetsFrame == {"u1", "u2"}

InitFrame ==
  LET dm(callerId) == NewWatchRequest("dm", NULL, callerId)
      ofU1 == <<dm("c1"), dm("c2"), dm("c3")>>
      ofU2 == <<dm("c1")>>
  IN  /\ watchedUsers = [t \in TargetsFrame |->
                           [targetUserId |-> t,
                            watchRequests |-> IF t = "u1" THEN ofU1 ELSE ofU2]]
      /\ watched_users = TargetsFrame
      /\ watch_request = Rows(1, "u1", ofU1) \cup Rows(4, "u2", ofU2)
      /\ nextId = 5
      /\ cascade \in BOOLEAN
      /\ tasks = EmptyBag
      /\ ev = Event("init", NULL, NULL, NULL)
      /\ rid = [t \in TargetsFrame |-> [c \in Callers |->
                  IF t = "u1" THEN findIndex(ofU1, c)
                  ELSE IF c = "c1" THEN 4 ELSE 0]]
      /\ nAdds = 0
      /\ sends = <<0, 0, 0, 0>>

NextFrame ==
  \/ \E target \in TargetsFrame, callerId \in Callers :
       deleteWatchRequest(target, callerId)
  \/ DeleteWork

SpecFrame == InitFrame /\ [][NextFrame]_vars

\* Commands that add and remove: c1 and c2 watch u1, and the callers call
\* executeWatch and deleteWatchRequest at any time.
InitRemoves ==
  Registered("u1", <<NewWatchRequest("dm", NULL, "c1"),
                     NewWatchRequest("dm", NULL, "c2")>>)

NextRemoves ==
  \/ \E callerId \in Callers, n \in Notifications :
       executeWatch("u1", n[1], callerId, n[2])
  \/ AddWork
  \/ \E callerId \in Callers : deleteWatchRequest("u1", callerId)
  \/ DeleteWork

SpecRemoves == InitRemoves /\ [][NextRemoves]_vars

----------------------------------------------------------------------------
\* What the index and the store hold.

\* the requests the index holds for target
IndexRequests(target) ==
  IF target \in DOMAIN watchedUsers
  THEN {watchedUsers[target].watchRequests[i] :
          i \in 1..Len(watchedUsers[target].watchRequests)}
  ELSE {}

\* the sequence of requests the index holds for target, empty when it has no entry
RequestsOf(target) ==
  IF target \in DOMAIN watchedUsers THEN watchedUsers[target].watchRequests ELSE <<>>

\* the requests the rows of the store are, for target
StoreRequests(target) ==
  {NewWatchRequest(r.notification_method, r.channel_id, r.caller_id) :
     r \in RowsOf(target)}

\* the index holds a request of the caller for the target
Watches(target, callerId) == \E r \in IndexRequests(target) : r.callerId = callerId

\* the tables of the store
store == <<watched_users, watch_request, nextId>>

\* the last step returned true from executeWatch or deleteWatchRequest
ReturnedTrue ==
  /\ ev.op \in {"return executeWatch", "return deleteWatchRequest", "return to callback"}
  /\ ev.result = "true"

----------------------------------------------------------------------------
\* C1 (one-shot delivery): no WatchRequest has more than one notification sent
\* for it, whatever the interleaving, two dispatches of the same target that are
\* in flight together included.
C1_OneShotDelivery == \A n \in 1..Len(sends) : sends[n] <= 1

\* C2 (persistence convergence): when executeWatch or deleteWatchRequest returns
\* true, the request rows of the store for the target are the requests of the
\* index for the target.  Stated for the returns that leave no unit of work
\* suspended, after which no step is left that could bring the two together.
C2_PersistenceConvergence ==
  (ReturnedTrue /\ tasks = EmptyBag) =>
     StoreRequests(ev.target) = IndexRequests(ev.target)

\* C5 (dispatch of a target with two requests, both resolved): when all the
\* work of the nightsWatch is done, two notifications were sent, one for each
\* request, the index has no entry for the target, and the store has neither
\* the aggregate row nor a request row of the target.
C5_DispatchClearsTarget ==
  (ev.op # "init" /\ tasks = EmptyBag) =>
     /\ sends = <<1, 1>>
     /\ "u1" \notin DOMAIN watchedUsers
     /\ "u1" \notin watched_users
     /\ RowsOf("u1") = {}

\* C6 (acknowledged adds are persisted): when executeWatch returns true to a
\* caller whose request no deleteWatchRequest has removed, the store holds a
\* request row of that caller for the target.
C6_AcknowledgedAddPersisted ==
  (ev.op = "return executeWatch" /\ ev.result = "true" /\ Watches(ev.target, ev.caller))
     => \E r \in RowsOf(ev.target) : r.caller_id = ev.caller

\* C3 (uniqueness in the index): the sequence of a target never holds two
\* requests of the same caller.
C3_UniqueCaller ==
  \A t \in DOMAIN watchedUsers :
    \A i, j \in 1..Len(watchedUsers[t].watchRequests) :
      watchedUsers[t].watchRequests[i].callerId = watchedUsers[t].watchRequests[j].callerId
        => i = j

\* a second executeWatch of a caller was rejected while the target has two requests
C3_Witness ==
  /\ ev.op = "executeWatch" /\ ev.result = "false"
  /\ Len(watchedUsers[ev.target].watchRequests) = 2

\* C4 (non-empty aggregate): every entry of the index has at least one request.
C4_NonEmptyAggregate ==
  \A t \in DOMAIN watchedUsers : Len(watchedUsers[t].watchRequests) > 0

\* the last request of a target was removed and the entry is gone
C4_Witness ==
  /\ ev.op \in {"deleteWatchRequest", "send"} /\ ev.result = "pending"
  /\ ev.target \notin DOMAIN watchedUsers

\* C7 (duplicate rejection): executeWatch for a caller who has a request for the
\* target returns false, leaves the index as it is and calls the store for nothing.
C7_DuplicateRejected ==
  [][\A t \in Targets, c \in Callers :
       (Watches(t, c) /\ ev'.op = "executeWatch" /\ ev'.target = t /\ ev'.caller = c)
         => /\ ev'.result = "false"
            /\ watchedUsers' = watchedUsers
            /\ tasks' = tasks
            /\ store' = store]_vars

\* executeWatch returned false to a caller whose request asks for another
\* notification than the command that was rejected could have asked for
C7_Witness ==
  /\ ev.op = "executeWatch" /\ ev.result = "false"
  /\ \E r \in IndexRequests(ev.target) :
       r.callerId = ev.caller /\ r.notificationMethod = "channel"

\* C8 (not-found removal): deleteWatchRequest for a pair the index does not hold
\* returns false, leaves the index as it is and calls the store for nothing, both
\* as a command and as the call of a callback of nightsWatch after its send.
C8_NotFoundRemoval ==
  [][\A t \in Targets, c \in Callers :
       (~Watches(t, c) /\ ev'.op \in {"deleteWatchRequest", "send"}
          /\ ev'.target = t /\ ev'.caller = c)
         => /\ ev'.result = "false"
            /\ watchedUsers' = watchedUsers
            /\ \A task \in BagToSet(tasks') : task \in BagToSet(tasks)
            /\ store' = store]_vars

\* deleteWatchRequest returned false for a target that others watch
C8_Witness ==
  /\ ev.op = "deleteWatchRequest" /\ ev.result = "false"
  /\ ev.target \in DOMAIN watchedUsers

C10_PartialFulfilment ==
  [][\A t \in Targets, c \in Callers :
       /\ (ev'.op = "skip" /\ ev'.target = t /\ ev'.caller = c)
            => /\ sends' = sends
               /\ watchedUsers' = watchedUsers
               /\ store' = store
               /\ \E task \in Suspended :
                    /\ task.kind = "nightsWatch" /\ task.target = t /\ task.caller = c
                    /\ tasks' = Ends(task)
       /\ (ev'.op = "send" /\ ev'.target = t /\ ev'.caller = c)
            => /\ \E task \in Suspended :
                    /\ task.kind = "nightsWatch" /\ task.target = t /\ task.caller = c
                    /\ sends' = [sends EXCEPT ![task.rid] = @ + 1]
                    /\ \A other \in BagToSet(Ends(task)) :
                         other.kind = "nightsWatch" => other \in BagToSet(tasks')
               /\ ~Watches(t, c)'
               /\ \A r \in IndexRequests(t) : r.callerId # c => r \in IndexRequests(t)']_vars

\* one nightsWatch for two requests is over: the callback of c1 ended without a
\* send and its request is still in the index, the request of c2 was sent and is gone
C10_Witness ==
  /\ Len(sends) = 2 /\ sends = <<0, 1>>
  /\ rid["u1"]["c1"] = 1 /\ Watches("u1", "c1")
  /\ rid["u1"]["c2"] = 2 /\ ~Watches("u1", "c2")
  /\ \A task \in Suspended : task.kind # "nightsWatch"

\* C11 (store failure): when the store call of executeWatch or deleteWatchRequest
\* fails, the call ends with an error, neither true nor false; the step that
\* reports it changes neither the index nor the store, and the index holds the
\* mutation of the call: the request of a failed add is in the sequence of the
\* target, the request of a failed removal is not.
C11_StoreFailure ==
  [][\A t \in Targets, c \in Callers :
       /\ (ev'.op = "return executeWatch" /\ ev'.target = t /\ ev'.caller = c
             /\ ev'.result = "error")
            => (Watches(t, c)' /\ watchedUsers' = watchedUsers /\ store' = store)
       /\ (ev'.op \in {"return deleteWatchRequest", "return to callback"}
             /\ ev'.target = t /\ ev'.caller = c /\ ev'.result = "error")
            => (~Watches(t, c)' /\ watchedUsers' = watchedUsers /\ store' = store)]_vars

\* executeWatch has ended with an error: its request is in the index and the
\* store has no row of it
C11_Witness ==
  /\ ev.op = "return executeWatch" /\ ev.result = "error"
  /\ Watches(ev.target, ev.caller)
  /\ ~\E r \in RowsOf(ev.target) : r.caller_id = ev.caller

\* C12 (aggregate deletion guarded by emptiness): in every interleaving a step
\* deletes the aggregate row of a target only when the store holds no request
\* row of the target at that moment, and when no unit of work is suspended (all
\* removals have completed) no aggregate row is left without a request row.
C12_GuardedAggregateDeletion ==
  [][\A t \in Targets :
       /\ (t \in watched_users /\ t \notin watched_users') => RowsOf(t) = {}
       /\ (tasks' = EmptyBag /\ t \in watched_users') => RowsOf(t)' # {}]_vars

\* C13 (uniqueness in the store): under any interleaving of executeWatch calls
\* on a target, the store never holds two request rows of the same caller for
\* the same target.
C13_UniqueRow ==
  \A r1, r2 \in watch_request :
    (r1.watched_user_id = r2.watched_user_id /\ r1.caller_id = r2.caller_id)
      => r1.id = r2.id

\* C14 (dispatch removes only delivered requests): a request leaves the index
\* only in a step that is a deleteWatchRequest command for its pair or a
\* callback of nightsWatch whose send for it succeeded; a callback whose send
\* fails leaves the index as it is.
C14_RemovedOnlyWhenDelivered ==
  [][\A t \in Targets, c \in Callers :
       /\ (Watches(t, c) /\ ~Watches(t, c)')
            => (ev'.op \in {"deleteWatchRequest", "send"}
                  /\ ev'.target = t /\ ev'.caller = c)
       /\ ev'.op = "send failed" => watchedUsers' = watchedUsers]_vars

\* C15 (snapshot iteration): a nightsWatch starts one callback for each request
\* the sequence of the target holds when it is called, neither more nor fewer;
\* the step of a callback, the removal it makes included, leaves every other
\* callback suspended, once; no other step starts a callback, and when
\* executeWatch adds a request no callback in flight is one of that request.
C15_SnapshotIteration ==
  [][\A t \in Targets :
       LET started(task) == CopiesIn(task, tasks') - CopiesIn(task, tasks)
           callbacks == {task \in BagToSet(tasks') \cup Suspended :
                           task.kind = "nightsWatch"}
       IN  /\ (ev'.op = "nightsWatch" /\ ev'.target = t /\ tasks' # tasks)
                => /\ t \in DOMAIN watchedUsers
                   /\ \A c \in Callers :
                        LET of == {task \in callbacks :
                                     task.caller = c /\ started(task) # 0}
                        IN  IF Watches(t, c)
                            THEN /\ Cardinality(of) = 1
                                 /\ \A task \in of :
                                      /\ started(task) = 1
                                      /\ task.rid = rid[t][c]
                                      /\ task.request \in IndexRequests(t)
                            ELSE of = {}
           /\ (ev'.op \in {"send", "skip"} /\ ev'.target = t)
                => /\ Cardinality({task \in callbacks : started(task) = -1}) = 1
                   /\ \A task \in callbacks : started(task) \in {-1, 0}
           /\ (ev'.op \notin {"nightsWatch", "send", "skip"})
                => \A task \in callbacks : started(task) = 0
           /\ (ev'.op = "executeWatch" /\ ev'.result = "pending")
                => \A task \in callbacks : task.rid # Len(sends')]_vars

\* one nightsWatch found the requests of c1 and c2: the callback of c1 has sent
\* and removed its request, and then the callback of c2 has sent too
C15_Witness ==
  /\ ev.op = "send" /\ ev.caller = "c2" /\ ev.result = "pending"
  /\ sends = <<1, 1>>
  /\ rid["u1"]["c1"] = 1 /\ rid["u1"]["c2"] = 2
  /\ \A c \in {"c1", "c2"} :
       \E task \in Suspended :
         /\ task.kind = "deleteWatchRequest" /\ task.origin = "nightsWatch"
         /\ task.caller = c /\ task.pc = "findUnique"

\* C16 (cancellation race): of the removal of a deleteWatchRequest command and
\* the removal of a callback of nightsWatch for the same pair, the one that
\* comes first takes the request out of the index and returns true; the other
\* returns false, leaves the index as it is and starts no store work, so at most
\* one removal of the pair is at work in the store and none ends with an error.
C16_CancellationRace ==
  [][\A t \in Targets, c \in Callers :
       LET removal == ev'.op \in {"deleteWatchRequest", "send"}
                        /\ ev'.target = t /\ ev'.caller = c
           working(bag) ==
             {task \in BagToSet(bag) :
                task.kind = "deleteWatchRequest" /\ task.target = t /\ task.caller = c}
       IN  /\ (Watches(t, c) /\ removal)
                => (ev'.result = "pending" /\ ~Watches(t, c)')
           /\ (~Watches(t, c) /\ removal)
                => /\ ev'.result = "false"
                   /\ watchedUsers' = watchedUsers
                   /\ store' = store
                   /\ working(tasks') = working(tasks)
           /\ ~Watches(t, c) => ~Watches(t, c)'
           /\ \A task \in working(tasks') : CopiesIn(task, tasks') = 1
           /\ Cardinality(working(tasks')) <= 1
           /\ (ev'.op \in {"return deleteWatchRequest", "return to callback"}
                 /\ ev'.target = t /\ ev'.caller = c)
                => ev'.result = "true"]_vars

\* the callback of c1 has sent and its deleteWatchRequest returned false, the
\* deleteWatchRequest command of c1 having come first and being still at work
C16_Witness ==
  /\ ev.op = "send" /\ ev.caller = "c1" /\ ev.result = "false"
  /\ \E task \in Suspended :
       /\ task.kind = "deleteWatchRequest" /\ task.origin = "command"
       /\ task.caller = "c1"

\* C17 (no lost update, insertion order kept): in every interleaving of
\* executeWatch and deleteWatchRequest on a target, an add that takes effect
\* appends the request of its caller to the sequence of the target and changes
\* nothing else of it, a removal that takes effect takes out the one request of
\* its caller and keeps the others in their order, no other step changes the
\* sequence, and the requests stand in the order in which they were added.
C17_NoLostUpdate ==
  [][\A t \in Targets :
       LET before == RequestsOf(t)
           after  == RequestsOf(t)'
           c      == ev'.caller
       IN  /\ IF ev'.op = "executeWatch" /\ ev'.target = t /\ ev'.result = "pending"
              THEN /\ Len(after) = Len(before) + 1
                   /\ SubSeq(after, 1, Len(before)) = before
                   /\ after[Len(after)].callerId = c
              ELSE IF ev'.op = "deleteWatchRequest" /\ ev'.target = t
                        /\ ev'.result = "pending"
              THEN /\ Len(after) = Len(before) - 1
                   /\ after = SelectSeq(before, LAMBDA r : r.callerId # c)
              ELSE after = before
           /\ \A i, j \in 1..Len(after) :
                i < j => rid'[t][after[i].callerId] < rid'[t][after[j].callerId]]_vars

\* c3 was added, c1 removed and added again, while c2 stayed: the sequence is
\* c2, c3, c1
C17_Witness ==
  /\ Len(RequestsOf("u1")) = 3
  /\ RequestsOf("u1")[1].callerId = "c2"
  /\ RequestsOf("u1")[2].callerId = "c3"
  /\ RequestsOf("u1")[3].callerId = "c1"

\* C18 (cancelled requests are not notified): when a deleteWatchRequest command
\* has returned true for a pair, no notification is sent for that pair unless
\* executeWatch adds it again.  Stated for the step that follows the return,
\* before which nothing can have added the pair again.
C18_CancelledNotNotified ==
  [][\A t \in Targets, c \in Callers :
       (ev = Event("return deleteWatchRequest", t, c, "true"))
         => ~(ev'.op = "send" /\ ev'.target = t /\ ev'.caller = c)]_vars

\* C19 (frame of removal in the index): the deleteWatchRequest that takes
\* effect, and later returns true, takes the one request of its caller out of
\* the sequence of its target, keeps the requests of the other callers in their
\* order, and leaves the entry of every other target as it is; the store work
\* that follows up to the return does not write the index.
C19_RemovalFrame ==
  [][\A t \in TargetsFrame, c \in Callers :
       /\ (ev' = Event("deleteWatchRequest", t, c, "pending"))
            => /\ Len(RequestsOf(t)') = Len(RequestsOf(t)) - 1
               /\ RequestsOf(t)' = SelectSeq(RequestsOf(t), LAMBDA r : r.callerId # c)
               /\ \A other \in TargetsFrame \ {t} :
                    /\ other \in DOMAIN watchedUsers' <=> other \in DOMAIN watchedUsers
                    /\ other \in DOMAIN watchedUsers
                         => watchedUsers'[other] = watchedUsers[other]
       /\ (ev'.op \in {"db", "return deleteWatchRequest"})
            => watchedUsers' = watchedUsers
       /\ (ev'.op = "return deleteWatchRequest" /\ ev'.target = t /\ ev'.caller = c)
            => (ev'.result = "true" /\ ~Watches(t, c)')]_vars

\* c2 was taken out of c1, c2, c3 on u1: c1 and c3 are left in that order, and
\* u2 has its entry
C19_Witness ==
  /\ ev = Event("deleteWatchRequest", "u1", "c2", "pending")
  /\ Len(RequestsOf("u1")) = 2
  /\ RequestsOf("u1")[1].callerId = "c1"
  /\ RequestsOf("u1")[2].callerId = "c3"
  /\ Len(RequestsOf("u2")) = 1

====
